---- MODULE Spec2Model ----
(***************************************************************************)
(* Model of the statistical-inference toolkit of the repository:           *)
(*   Estimation.py         confidence intervals for a mean / a proportion  *)
(*   HypothesisTesting.py  Z / T tests for a mean / a proportion           *)
(*   HypothesisError.py    Type I / Type II error and power                *)
(*                                                                         *)
(* Every function of the toolkit is a pure function of its arguments.  A   *)
(* behaviour of the model is one call: Init draws the function and its     *)
(* arguments, the function's action applies it and stores what the call    *)
(* produced (a returned tuple or the exception that left the function).    *)
(*                                                                         *)
(* Numbers.  A Python float is modelled as a record                        *)
(*   [cls |-> "fin", v |-> k]   the finite value k / Scale (fixed point)   *)
(*   [cls |-> "inf", v |-> s]   s = 1: +inf, s = -1: -inf                  *)
(*   [cls |-> "nan", v |-> 0]   not-a-number                               *)
(* and Python's None as [cls |-> "none", v |-> 0].  Probabilities (cl,     *)
(* alpha, p-values, beta, power) are finite values in units of 1 / PScale. *)
(* Arithmetic on finite values is exact up to the fixed-point resolution;  *)
(* the rounding of IEEE binary64 is not modelled.                          *)
(***************************************************************************)
EXTENDS Integers, Sequences, FiniteSets, TLC

\* Fixed-point unit of values (means, standard deviations, z and t scores).
Scale == 10 * 100

\* Fixed-point unit of probabilities.
PScale == 10 * Scale

(***************************************************************************)
(* Floating-point values                                                   *)
(***************************************************************************)
Fin(k) == [cls |-> "fin", v |-> k]

NaN == [cls |-> "nan", v |-> 0]

PosInf == [cls |-> "inf", v |-> 1]

NegInf == [cls |-> "inf", v |-> 0 - 1]

None == [cls |-> "none", v |-> 0]

Abs(k) == IF k < 0 THEN 0 - k ELSE k

Sign(k) == IF k < 0 THEN 0 - 1 ELSE IF k > 0 THEN 1 ELSE 0

\* a / b on integers, truncated toward zero (b # 0).
TruncDiv(a, b) == Sign(a) * Sign(b) * (Abs(a) \div Abs(b))

\* Fixed-point product and quotient of two finite values.
MulFP(a, b) == TruncDiv(a * b, Scale)

DivFP(a, b) == TruncDiv(a * Scale, b)

FNeg(x) ==
    IF x.cls = "fin" THEN Fin(0 - x.v)
    ELSE IF x.cls = "inf" THEN [cls |-> "inf", v |-> 0 - x.v]
    ELSE NaN

FAdd(x, y) ==
    IF x.cls = "nan" \/ y.cls = "nan" THEN NaN
    ELSE IF x.cls = "inf" /\ y.cls = "inf" THEN (IF x.v = y.v THEN x ELSE NaN)
    ELSE IF x.cls = "inf" THEN x
    ELSE IF y.cls = "inf" THEN y
    ELSE Fin(x.v + y.v)

FSub(x, y) == FAdd(x, FNeg(y))

\* Product of two values of unit 1/Scale.
FMul(x, y) ==
    IF x.cls = "nan" \/ y.cls = "nan" THEN NaN
    ELSE IF x.cls = "inf" \/ y.cls = "inf"
         THEN (IF Sign(x.v) * Sign(y.v) = 0 THEN NaN
               ELSE [cls |-> "inf", v |-> Sign(x.v) * Sign(y.v)])
    ELSE Fin(MulFP(x.v, y.v))

\* Python's == and < on floats: every comparison with nan is false.
FEq(x, y) ==
    /\ x.cls \in {"fin", "inf"}
    /\ y.cls \in {"fin", "inf"}
    /\ x = y

FLt(x, y) ==
    /\ x.cls \in {"fin", "inf"}
    /\ y.cls \in {"fin", "inf"}
    /\ IF x.cls = "fin" /\ y.cls = "fin" THEN x.v < y.v
       ELSE IF x.cls = "inf" /\ y.cls = "inf" THEN x.v < y.v
       ELSE IF x.cls = "inf" THEN x.v < 0
       ELSE y.v > 0

(***************************************************************************)
(* Library functions (math, numpy, scipy.stats)                            *)
(***************************************************************************)
RECURSIVE ISqrtIn(_, _, _)
\* The largest r in lo..hi with r * r <= x (lo * lo <= x is given).
ISqrtIn(x, lo, hi) ==
    IF lo >= hi THEN lo
    ELSE LET mid == (lo + hi + 1) \div 2
         IN  IF mid * mid <= x THEN ISqrtIn(x, mid, hi)
             ELSE ISqrtIn(x, lo, mid - 1)

ISqrt(x) == ISqrtIn(x, 0, 46340)

\* sqrt of the integer n, as a value of unit 1/Scale (n >= 0).
SqrtInt(n) == ISqrt(n * Scale * Scale)

\* 10000 * Phi(z) for z = 0.0, 0.1, ..., 4.0 (the standard normal CDF).
PhiTable ==
    << 5000, 5398, 5793, 6179, 6554, 6915, 7257, 7580, 7881, 8159,
       8413, 8643, 8849, 9032, 9192, 9332, 9452, 9554, 9641, 9713,
       9772, 9821, 9861, 9893, 9918, 9938, 9953, 9965, 9974, 9981,
       9987, 9990, 9993, 9995, 9997, 9998, 9998, 9999, 9999, 10000,
       10000 >>

\* scipy.stats.norm.cdf at the finite score z (unit 1/Scale), in 1/PScale:
\* the table, interpolated linearly, mirrored for negative scores.
NormCdf(z) ==
    LET a    == Abs(z)
        i    == a \div 100
        r    == a % 100
        half == IF a >= 4000 THEN PScale
                ELSE PhiTable[i + 1] + ((PhiTable[i + 2] - PhiTable[i + 1]) * r) \div 100
    IN  IF z < 0 THEN PScale - half ELSE half

RECURSIVE PpfIn(_, _, _)
\* The least score z in lo..hi with NormCdf(z) >= q (NormCdf(hi) >= q is given).
PpfIn(q, lo, hi) ==
    IF lo >= hi THEN hi
    ELSE LET mid == (lo + hi) \div 2
         IN  IF NormCdf(mid) >= q THEN PpfIn(q, lo, mid)
             ELSE PpfIn(q, mid + 1, hi)

\* scipy.stats.norm.ppf(q) for q in 1/PScale: the inverse of NormCdf,
\* -inf at 0, +inf at 1, nan outside [0, 1].
NormPpf(q) ==
    IF q < 0 \/ q > PScale THEN NaN
    ELSE IF q = 0 THEN NegInf
    ELSE IF q = PScale THEN PosInf
    ELSE IF 2 * q >= PScale THEN Fin(PpfIn(q, 0, 4000))
    ELSE Fin(0 - PpfIn(PScale - q, 0, 4000))

\* scipy.stats.t.ppf(q, df): nan unless df > 0; otherwise the normal quantile
\* widened by the first term of its expansion in 1/df,
\* t = z + (z^3 + z) / (4 df).
TPpf(q, df) ==
    LET z == NormPpf(q)
    IN  IF df <= 0 THEN NaN
        ELSE IF z.cls # "fin" THEN z
        ELSE Fin(z.v + TruncDiv(MulFP(MulFP(z.v, z.v), z.v) + z.v, 4 * df))

\* scipy.stats.t.cdf(x, df) at the finite score x: nan unless df > 0;
\* otherwise the normal CDF of the equivalent normal deviate
\* x (1 - 1/(4 df)) / sqrt(1 + x^2 / (2 df)), scores beyond +-40 taken as +-40.
TCdf(x, df) ==
    IF df <= 0 THEN NaN
    ELSE LET xc  == IF x > 40 * Scale THEN 40 * Scale
                    ELSE IF x < 0 - 40 * Scale THEN 0 - 40 * Scale ELSE x
             num == TruncDiv(xc * (4 * df - 1), 4 * df)
             den == ISqrt((Scale + TruncDiv(MulFP(xc, xc), 2 * df)) * Scale)
         IN  Fin(NormCdf(DivFP(num, den)))

\* scipy.stats.norm.cdf(x, loc, scale) at the finite point x, and the cdf of
\* the frozen stats.norm(loc, scale): nan unless scale > 0.
NormCdfAt(x, loc, scale) ==
    IF scale <= 0 THEN NaN ELSE Fin(NormCdf(DivFP(x - loc, scale)))

(***************************************************************************)
(* What a call produced                                                    *)
(***************************************************************************)
\* The call was left by an exception of class kind, raised at `why`.
Raised(kind, why) == [err |-> kind, why |-> why]

Pending == [err |-> "pending"]

\* The value x was returned (by a helper that may also raise).
Ok(x) == [err |-> "none", val |-> x]

\* Estimation.py: n < 30 selects the small-sample path.
SmallSample == 30

\* Estimation.py: least number of successes and of failures of a proportion.
MinCount == 10

\* HypothesisTesting.py: n >= 30 selects the Z-test.
LargeSample == 30

\* HypothesisTesting.py: least number of successes and of failures.
MinCountTest == 10

(***************************************************************************)
(* Estimation.py                                                           *)
(***************************************************************************)
\* Mutant: only the number of successes is checked.
validate_estimation_inputs_successOnly(p, n) ==
    LET success == n * p
    IN  IF success < MinCount * Scale
        THEN <<FALSE, "success and fail must both be at least 10">>
        ELSE <<TRUE, "Inputs are valid.">>

validate_estimation_inputs(p, n) ==
    LET success == n * p
        fail    == n * (Scale - p)
    IN  IF success < MinCount * Scale \/ fail < MinCount * Scale
        THEN <<FALSE, "success and fail must both be at least 10">>
        ELSE <<TRUE, "Inputs are valid.">>

z_distribution(mean, SE, cl, range_start, range_end) ==
    LET alpha      == (PScale - cl) \div 2
        z_critical == NormPpf(PScale - alpha)
        MoE        == FMul(z_critical, Fin(SE))
        CI         == <<FSub(Fin(mean), MoE), FAdd(Fin(mean), MoE)>>
        probability ==
            IF range_start # None /\ range_end # None
            THEN FSub(NormCdfAt(range_end.v, mean, SE),
                      NormCdfAt(range_start.v, mean, SE))
            ELSE None
    IN  [err |-> "none", MoE |-> MoE, CI |-> CI, probability |-> probability,
         dist |-> "Z", df |-> None]

t_distribution(mean, SE, cl, n, start, end) ==
    LET df         == n - 1
        alpha      == (PScale - cl) \div 2
        t_critical == TPpf(PScale - alpha, df)
        MoE        == FMul(t_critical, Fin(SE))
        CI         == <<FSub(Fin(mean), MoE), FAdd(Fin(mean), MoE)>>
    IN  IF start # None /\ end # None
        THEN IF SE = 0
             THEN Raised("ZeroDivisionError", "t_start = (start - mean) / SE")
             ELSE LET t_start == DivFP(start.v - mean, SE)
                      t_end   == DivFP(end.v - mean, SE)
                  IN  [err |-> "none", MoE |-> MoE, CI |-> CI,
                       probability |-> FSub(TCdf(t_end, df), TCdf(t_start, df)),
                       dist |-> "T", df |-> Fin(df)]
        ELSE [err |-> "none", MoE |-> MoE, CI |-> CI, probability |-> None,
              dist |-> "T", df |-> Fin(df)]

\* Mutant: the Student-t path is taken only when both conditions hold.
calculate_mean_estimation_and(mean, n, std, is_sample_std, cl, start, end) ==
    IF n < 0 THEN Raised("ValueError", "math.sqrt(n)")
    ELSE IF n = 0 THEN Raised("ZeroDivisionError", "SE = std / math.sqrt(n)")
    ELSE LET SE == DivFP(std, SqrtInt(n))
         IN  IF n < SmallSample /\ is_sample_std # 0
             THEN t_distribution(mean, SE, cl, n, start, end)
             ELSE z_distribution(mean, SE, cl, start, end)

calculate_mean_estimation(mean, n, std, is_sample_std, cl, start, end) ==
    IF n < 0 THEN Raised("ValueError", "math.sqrt(n)")
    ELSE IF n = 0 THEN Raised("ZeroDivisionError", "SE = std / math.sqrt(n)")
    ELSE LET SE == DivFP(std, SqrtInt(n))
         IN  IF n < SmallSample \/ is_sample_std # 0
             THEN t_distribution(mean, SE, cl, n, start, end)
             ELSE z_distribution(mean, SE, cl, start, end)

\* Mutant: the small-sample path of the mean is taken for a proportion too.
calculate_proportion_estimation_smallSampleT(p, n, cl, start, end) ==
    LET valid == validate_estimation_inputs(p, n)
    IN  IF ~valid[1] THEN Raised("ValueError", valid[2])
        ELSE LET SE == ISqrt((p * (Scale - p)) \div n)
             IN  IF n < SmallSample
                 THEN t_distribution(p, SE, cl, n, start, end)
                 ELSE z_distribution(p, SE, cl, start, end)

calculate_proportion_estimation(p, n, cl, start, end) ==
    LET valid == validate_estimation_inputs(p, n)
    IN  IF ~valid[1] THEN Raised("ValueError", valid[2])
        ELSE LET SE == ISqrt((p * (Scale - p)) \div n)
             IN  z_distribution(p, SE, cl, start, end)

(***************************************************************************)
(* HypothesisTesting.py                                                    *)
(***************************************************************************)
validate_proportion_inputs(p, n) ==
    IF n * p < MinCountTest * Scale \/ n * (Scale - p) < MinCountTest * Scale
    THEN <<FALSE, "succeeded = np and failed = n(1-p) must both be at least 10">>
    ELSE <<TRUE, "Inputs are valid.">>

calculate_standard_error_mean(std_dev, n) ==
    IF n < 0 THEN Raised("ValueError", "math.sqrt(n)")
    ELSE IF n = 0 THEN Raised("ZeroDivisionError", "std_dev / math.sqrt(n)")
    ELSE Ok(Fin(DivFP(std_dev, SqrtInt(n))))

calculate_standard_error_proportion(p, n) ==
    LET q == p * (Scale - p)
    IN  IF n = 0 THEN Raised("ZeroDivisionError", "(p * (1 - p)) / n")
        ELSE IF (q > 0 /\ n < 0) \/ (q < 0 /\ n > 0)
        THEN Raised("ValueError", "math.sqrt((p * (1 - p)) / n)")
        ELSE Ok(Fin(ISqrt(TruncDiv(q, n))))

\* Mutant: a zero standard error is guarded and gives the score 0.
calculate_z_score_zeroOnZeroSE(sample_stat, population_mean, se) ==
    IF se = 0 THEN Ok(Fin(0))
    ELSE Ok(Fin(DivFP(sample_stat - population_mean, se)))

calculate_z_score(sample_stat, population_mean, se) ==
    IF se = 0 THEN Raised("ZeroDivisionError", "(sample_stat - population_mean) / se")
    ELSE Ok(Fin(DivFP(sample_stat - population_mean, se)))

calculate_t_score(sample_mean, population_mean, se) ==
    IF se = 0 THEN Raised("ZeroDivisionError", "(sample_mean - population_mean) / se")
    ELSE Ok(Fin(DivFP(sample_mean - population_mean, se)))

\* 1 - c and 2 * c on probabilities.
OneMinus(c) == FSub(Fin(PScale), c)

Twice(c) == FAdd(c, c)

\* Mutant: the left and the right tail are exchanged.
calculate_p_value_tailsSwapped(z_score, tail_type, df) ==
    IF tail_type = "two"
    THEN IF df = None
         THEN Ok(Twice(OneMinus(Fin(NormCdf(Abs(z_score))))))
         ELSE Ok(Twice(OneMinus(TCdf(Abs(z_score), df.v))))
    ELSE IF tail_type = "right"
    THEN IF df = None
         THEN Ok(Fin(NormCdf(z_score)))
         ELSE Ok(TCdf(z_score, df.v))
    ELSE IF tail_type = "left"
    THEN IF df = None
         THEN Ok(OneMinus(Fin(NormCdf(z_score))))
         ELSE Ok(OneMinus(TCdf(z_score, df.v)))
    ELSE Raised("ValueError", "Invalid tail type. Choose 'two', 'left', or 'right'.")

calculate_p_value(z_score, tail_type, df) ==
    IF tail_type = "two"
    THEN IF df = None
         THEN Ok(Twice(OneMinus(Fin(NormCdf(Abs(z_score))))))
         ELSE Ok(Twice(OneMinus(TCdf(Abs(z_score), df.v))))
    ELSE IF tail_type = "left"
    THEN IF df = None
         THEN Ok(Fin(NormCdf(z_score)))
         ELSE Ok(TCdf(z_score, df.v))
    ELSE IF tail_type = "right"
    THEN IF df = None
         THEN Ok(OneMinus(Fin(NormCdf(z_score))))
         ELSE Ok(OneMinus(TCdf(z_score, df.v)))
    ELSE Raised("ValueError", "Invalid tail type. Choose 'two', 'left', or 'right'.")

\* Mutant: H0 is also rejected when the p-value equals alpha.
Decision_rejectAtAlpha(p_value, alpha) ==
    IF FLt(p_value, Fin(alpha)) \/ FEq(p_value, Fin(alpha))
    THEN "Reject H0" ELSE "Fail to Reject H0"

\* decision = "Reject H0" if p_value < alpha else "Fail to Reject H0"
Decision(p_value, alpha) ==
    IF FLt(p_value, Fin(alpha)) THEN "Reject H0" ELSE "Fail to Reject H0"

\* Mutant: the Z-test is taken only when both conditions hold.
hypothesis_test_mean_and(sample_mean, population_mean, std_dev, n, alpha, tail_type, is_population_std) ==
    LET se == calculate_standard_error_mean(std_dev, n)
    IN  IF se.err # "none" THEN se
        ELSE IF n >= LargeSample /\ is_population_std
        THEN LET test_stat == calculate_z_score(sample_mean, population_mean, se.val.v)
             IN  IF test_stat.err # "none" THEN test_stat
                 ELSE LET p_value == calculate_p_value(test_stat.val.v, tail_type, None)
                      IN  IF p_value.err # "none" THEN p_value
                          ELSE [err |-> "none", test_stat |-> test_stat.val,
                                p_value |-> p_value.val,
                                decision |-> Decision(p_value.val, alpha),
                                dist |-> "Z", df |-> None]
        ELSE LET test_stat == calculate_t_score(sample_mean, population_mean, se.val.v)
                 df        == n - 1
             IN  IF test_stat.err # "none" THEN test_stat
                 ELSE LET p_value == calculate_p_value(test_stat.val.v, tail_type, Fin(df))
                      IN  IF p_value.err # "none" THEN p_value
                          ELSE [err |-> "none", test_stat |-> test_stat.val,
                                p_value |-> p_value.val,
                                decision |-> Decision(p_value.val, alpha),
                                dist |-> "T", df |-> Fin(df)]

hypothesis_test_mean(sample_mean, population_mean, std_dev, n, alpha, tail_type, is_population_std) ==
    LET se == calculate_standard_error_mean(std_dev, n)
    IN  IF se.err # "none" THEN se
        ELSE IF n >= LargeSample \/ is_population_std
        THEN LET test_stat == calculate_z_score(sample_mean, population_mean, se.val.v)
             IN  IF test_stat.err # "none" THEN test_stat
                 ELSE LET p_value == calculate_p_value(test_stat.val.v, tail_type, None)
                      IN  IF p_value.err # "none" THEN p_value
                          ELSE [err |-> "none", test_stat |-> test_stat.val,
                                p_value |-> p_value.val,
                                decision |-> Decision(p_value.val, alpha),
                                dist |-> "Z", df |-> None]
        ELSE LET test_stat == calculate_t_score(sample_mean, population_mean, se.val.v)
                 df        == n - 1
             IN  IF test_stat.err # "none" THEN test_stat
                 ELSE LET p_value == calculate_p_value(test_stat.val.v, tail_type, Fin(df))
                      IN  IF p_value.err # "none" THEN p_value
                          ELSE [err |-> "none", test_stat |-> test_stat.val,
                                p_value |-> p_value.val,
                                decision |-> Decision(p_value.val, alpha),
                                dist |-> "T", df |-> Fin(df)]

\* Mutant: the rule is applied to the sample proportion.
hypothesis_test_proportion_sampleRule(sample_proportion, population_proportion, n, alpha, tail_type) ==
    LET valid == validate_proportion_inputs(sample_proportion, n)
    IN  IF ~valid[1] THEN Raised("ValueError", valid[2])
        ELSE LET se == calculate_standard_error_proportion(population_proportion, n)
             IN  IF se.err # "none" THEN se
                 ELSE LET z_score == calculate_z_score(sample_proportion,
                                                       population_proportion, se.val.v)
                      IN  IF z_score.err # "none" THEN z_score
                          ELSE LET p_value == calculate_p_value(z_score.val.v, tail_type, None)
                               IN  IF p_value.err # "none" THEN p_value
                                   ELSE [err |-> "none", test_stat |-> z_score.val,
                                         p_value |-> p_value.val,
                                         decision |-> Decision(p_value.val, alpha),
                                         dist |-> "Z", df |-> None]

hypothesis_test_proportion(sample_proportion, population_proportion, n, alpha, tail_type) ==
    LET valid == validate_proportion_inputs(population_proportion, n)
    IN  IF ~valid[1] THEN Raised("ValueError", valid[2])
        ELSE LET se == calculate_standard_error_proportion(population_proportion, n)
             IN  IF se.err # "none" THEN se
                 ELSE LET z_score == calculate_z_score(sample_proportion,
                                                       population_proportion, se.val.v)
                      IN  IF z_score.err # "none" THEN z_score
                          ELSE LET p_value == calculate_p_value(z_score.val.v, tail_type, None)
                               IN  IF p_value.err # "none" THEN p_value
                                   ELSE [err |-> "none", test_stat |-> z_score.val,
                                         p_value |-> p_value.val,
                                         decision |-> Decision(p_value.val, alpha),
                                         dist |-> "Z", df |-> None]

(***************************************************************************)
(* HypothesisError.py                                                      *)
(***************************************************************************)
\* numpy.sqrt of a number: nan (and a warning, no exception) below zero.
NpSqrtInt(n) == IF n < 0 THEN NaN ELSE Fin(SqrtInt(n))

\* x / y where y is a numpy float: a zero divisor gives inf or nan (and a
\* warning), never an exception.
NpDiv(x, y) ==
    IF x.cls = "nan" \/ y.cls = "nan" THEN NaN
    ELSE IF y.cls = "inf" THEN (IF x.cls = "inf" THEN NaN ELSE Fin(0))
    ELSE IF x.cls = "inf"
         THEN [cls |-> "inf", v |-> x.v * (IF y.v < 0 THEN 0 - 1 ELSE 1)]
    ELSE IF y.v = 0
         THEN (IF x.v = 0 THEN NaN ELSE [cls |-> "inf", v |-> Sign(x.v)])
    ELSE Fin(DivFP(x.v, y.v))

\* scipy.stats.norm.cdf(x, loc=loc, scale=scale) on floats: nan unless
\* scale > 0, nan where (x - loc) / scale is nan.
NormCdfF(x, loc, scale) ==
    IF x.cls = "nan" \/ scale.cls = "nan" THEN NaN
    ELSE IF scale.cls = "inf"
         THEN (IF scale.v < 0 \/ x.cls = "inf" THEN NaN ELSE Fin(PScale \div 2))
    ELSE IF scale.v <= 0 THEN NaN
    ELSE IF x.cls = "inf" THEN (IF x.v > 0 THEN Fin(PScale) ELSE Fin(0))
    ELSE Fin(NormCdf(DivFP(x.v - loc, scale.v)))

\* Mutant: the two-sided test puts the whole of alpha in each tail.
CriticalValues_alphaInEachTail(null, SE, alpha, tails) ==
    IF tails = "two"
    THEN LET z_critical == NormPpf(PScale - alpha)
         IN  <<z_critical, FSub(Fin(null), FMul(z_critical, SE)),
               FAdd(Fin(null), FMul(z_critical, SE))>>
    ELSE IF tails = "right"
    THEN LET z_critical == NormPpf(PScale - alpha)
         IN  <<z_critical, NegInf, FAdd(Fin(null), FMul(z_critical, SE))>>
    ELSE LET z_critical == NormPpf(alpha)
         IN  <<z_critical, FAdd(Fin(null), FMul(z_critical, SE)), PosInf>>

\* Lines 96-108 of calculate_errors_power and 140-152 of
\* calculate_proportion_errors_power, which differ only in the names: the
\* critical value and the two boundaries of the non-rejection region of H0
\* (centre null, scale SE), as <<z_critical, low, high>>.
CriticalValues(null, SE, alpha, tails) ==
    IF tails = "two"
    THEN LET z_critical == NormPpf(PScale - alpha \div 2)
         IN  <<z_critical, FSub(Fin(null), FMul(z_critical, SE)),
               FAdd(Fin(null), FMul(z_critical, SE))>>
    ELSE IF tails = "right"
    THEN LET z_critical == NormPpf(PScale - alpha)
         IN  <<z_critical, NegInf, FAdd(Fin(null), FMul(z_critical, SE))>>
    ELSE LET z_critical == NormPpf(alpha)
         IN  <<z_critical, FAdd(Fin(null), FMul(z_critical, SE)), PosInf>>

\* Mutant: the left-tailed test takes the mass below the boundary.
Beta_leftMassBelow(critical_value_low, critical_value_high, alt, SE, tails) ==
    IF tails = "two"
    THEN FSub(NormCdfF(critical_value_high, alt, SE),
              NormCdfF(critical_value_low, alt, SE))
    ELSE IF tails = "right"
    THEN NormCdfF(critical_value_high, alt, SE)
    ELSE NormCdfF(critical_value_low, alt, SE)

\* Lines 113-119 and 160-166: the Type II error under the alternative
\* (centre alt, scale SE).
Beta(critical_value_low, critical_value_high, alt, SE, tails) ==
    IF tails = "two"
    THEN FSub(NormCdfF(critical_value_high, alt, SE),
              NormCdfF(critical_value_low, alt, SE))
    ELSE IF tails = "right"
    THEN NormCdfF(critical_value_high, alt, SE)
    ELSE OneMinus(NormCdfF(critical_value_low, alt, SE))

\* Mutant: beta is returned as the power.
ErrorsPower_powerIsBeta(null, alt, SE_crit, SE_beta, alpha, tails) ==
    LET crit        == CriticalValues(null, SE_crit, alpha, tails)
        type1_error == Fin(alpha)
        beta        == Beta(crit[2], crit[3], alt, SE_beta, tails)
        power       == beta
    IN  IF tails \notin {"two", "right", "left"}
        THEN Raised("UnboundLocalError", "power = 1 - beta")
        ELSE [err |-> "none", type1_error |-> type1_error, beta |-> beta,
              power |-> power,
              critical_value_low |-> crit[2],
              critical_value_high |-> crit[3],
              SE_crit |-> SE_crit, SE_beta |-> SE_beta]

\* Lines 96-124 of calculate_errors_power and 140-171 of
\* calculate_proportion_errors_power: the critical values of H0 (scale
\* SE_crit), beta under the alternative (scale SE_beta), power.  When tails
\* is none of the three modes no branch binds beta and `power = 1 - beta`
\* reads an unbound local.
ErrorsPower(null, alt, SE_crit, SE_beta, alpha, tails) ==
    LET crit        == CriticalValues(null, SE_crit, alpha, tails)
        type1_error == Fin(alpha)
        beta        == Beta(crit[2], crit[3], alt, SE_beta, tails)
        power       == OneMinus(beta)
    IN  IF tails \notin {"two", "right", "left"}
        THEN Raised("UnboundLocalError", "power = 1 - beta")
        ELSE [err |-> "none", type1_error |-> type1_error, beta |-> beta,
              power |-> power,
              critical_value_low |-> crit[2],
              critical_value_high |-> crit[3],
              SE_crit |-> SE_crit, SE_beta |-> SE_beta]

calculate_errors_power(mean_null, mean_alt, std, n, alpha, tails) ==
    LET SE == NpDiv(Fin(std), NpSqrtInt(n))
    IN  ErrorsPower(mean_null, mean_alt, SE, SE, alpha, tails)

\* numpy.sqrt((p * (1 - p)) / n), the quotient being Python's (n # 0).
NpSqrtRatio(p, n) ==
    LET q == p * (Scale - p)
    IN  IF (q > 0 /\ n < 0) \/ (q < 0 /\ n > 0) THEN NaN
        ELSE Fin(ISqrt(TruncDiv(q, n)))

\* Mutant: one standard error, that of the null proportion, is used throughout.
calculate_proportion_errors_power_oneSE(p_null, p_alt, n, alpha, tails) ==
    IF n = 0 THEN Raised("ZeroDivisionError", "(p_null * (1 - p_null)) / n")
    ELSE LET SE_null == NpSqrtRatio(p_null, n)
         IN  ErrorsPower(p_null, p_alt, SE_null, SE_null, alpha, tails)

calculate_proportion_errors_power(p_null, p_alt, n, alpha, tails) ==
    IF n = 0 THEN Raised("ZeroDivisionError", "(p_null * (1 - p_null)) / n")
    ELSE LET SE_null == NpSqrtRatio(p_null, n)
             SE_alt  == NpSqrtRatio(p_alt, n)
         IN  ErrorsPower(p_null, p_alt, SE_null, SE_alt, alpha, tails)

(***************************************************************************)
(* DescriptiveAnalysis.py                                                  *)
(***************************************************************************)
\* s with x put at its place, s being in ascending order.
Insert(x, s) ==
    LET below == SelectSeq(s, LAMBDA y : y <= x)
        above == SelectSeq(s, LAMBDA y : y > x)
    IN  below \o <<x>> \o above

RECURSIVE Sorted(_)
\* The elements of a in ascending order: numpy.percentile orders a copy of
\* its argument and leaves the argument alone.
Sorted(a) == IF a = <<>> THEN <<>> ELSE Insert(Head(a), Sorted(Tail(a)))

\* 4 * numpy.percentile(a, q) for q in {25, 75} and a of whole numbers, a
\* non-empty: the default linear interpolation between the order statistics
\* around position (n - 1) * q / 100, whose fractional part is in quarters.
Percentile4(a, q) ==
    LET s   == Sorted(a)
        pos == (Len(a) - 1) * q
        i   == pos \div 100
        k   == (pos % 100) \div 25
    IN  IF k = 0 THEN 4 * s[i + 1]
        ELSE 4 * s[i + 1] + k * (s[i + 2] - s[i + 1])

\* Mutant: the fences are exclusive.
remove_outliers_iqr_exclusive(data, raisesOnEmpty) ==
    IF data = <<>>
    THEN IF raisesOnEmpty
         THEN Raised("IndexError", "np.percentile(data, [25, 75])")
         ELSE [err |-> "none", val |-> <<>>, data |-> data]
    ELSE LET q25 == Percentile4(data, 25)
             q75 == Percentile4(data, 75)
             iqr == q75 - q25
             lower_bound == 2 * q25 - 3 * iqr
             upper_bound == 2 * q75 + 3 * iqr
         IN  [err |-> "none",
              val |-> SelectSeq(data, LAMBDA v : lower_bound < 8 * v /\ 8 * v < upper_bound),
              data |-> data]

\* remove_outliers_iqr(data) for data of whole numbers.  q25, q75 and iqr are
\* held in quarters and the two bounds in eighths, which is exact.  The result
\* carries the list returned (val) and the argument as the call leaves it
\* (data).  On empty data numpy.percentile raises IndexError or gives nan with
\* a warning, depending on the numpy release (raisesOnEmpty); with nan bounds
\* the comprehension runs over no element.
remove_outliers_iqr(data, raisesOnEmpty) ==
    IF data = <<>>
    THEN IF raisesOnEmpty
         THEN Raised("IndexError", "np.percentile(data, [25, 75])")
         ELSE [err |-> "none", val |-> <<>>, data |-> data]
    ELSE LET q25 == Percentile4(data, 25)
             q75 == Percentile4(data, 75)
             iqr == q75 - q25
             lower_bound == 2 * q25 - 3 * iqr
             upper_bound == 2 * q75 + 3 * iqr
         IN  [err |-> "none",
              val |-> SelectSeq(data, LAMBDA v : lower_bound <= 8 * v /\ 8 * v <= upper_bound),
              data |-> data]

(***************************************************************************)
(* The calls                                                               *)
(***************************************************************************)
VARIABLES
    pc,     \* "ready": the call is about to be made; "done": it has ended
    op,     \* the function called
    args,   \* its arguments
    out     \* what the call produced

vars == <<pc, op, args, out>>

\* Largest sample size of the dense range of sample sizes.
MaxN == 31

\* Sample sizes: negative, zero, every size up to MaxN, and one large size.
Ns == ((0 - 1) .. MaxN) \cup {100}

Tails == {"two", "left", "right", "both"}

ValidTails == {"two", "left", "right"}

Alphas == {500, 1000}

ConfidenceLevels == {9000, 9500}

Stds == {0, 500, 2500}

Proportions == {0, 20, 250, 440, 500, 750, 1000}

\* The longest data set.
MaxLen == 5

\* The observations a data set is made of.
Values == {1, 2, 3, 4, 9}

Datasets == UNION {[1 .. k -> Values] : k \in 0 .. MaxLen}

Ops ==
    { "calculate_mean_estimation", "calculate_proportion_estimation",
      "calculate_standard_error_mean", "calculate_standard_error_proportion",
      "hypothesis_test_mean", "hypothesis_test_proportion",
      "calculate_errors_power", "calculate_proportion_errors_power",
      "remove_outliers_iqr" }

ArgsOf(o) ==
    CASE o = "calculate_mean_estimation" ->
           [mean : {2290, 2200}, n : Ns, std : Stds, is_sample_std : {0, 1},
            cl : ConfidenceLevels, start : {None, Fin(2100)}, end : {None, Fin(2250)}]
      [] o = "calculate_proportion_estimation" ->
           [p : Proportions, n : Ns, cl : ConfidenceLevels,
            start : {None, Fin(450)}, end : {None, Fin(470)}]
      [] o = "calculate_standard_error_mean" ->
           [std_dev : Stds, n : Ns]
      [] o = "calculate_standard_error_proportion" ->
           [p : Proportions, n : Ns]
      [] o = "hypothesis_test_mean" ->
           [sample_mean : {14176, 15000, 15824, 17000}, population_mean : {15000},
            std_dev : Stds, n : Ns, alpha : Alphas, tail_type : Tails,
            is_population_std : BOOLEAN]
      [] o = "hypothesis_test_proportion" ->
           [sample_proportion : {20, 440, 500, 560},
            population_proportion : {20, 250, 500, 1000},
            n : Ns, alpha : Alphas, tail_type : Tails]
      [] o = "calculate_errors_power" ->
           [mean_null : {15000}, mean_alt : {15000, 15500}, std : {0, 500},
            n : Ns, alpha : Alphas, tails : Tails]
      [] o = "calculate_proportion_errors_power" ->
           [p_null : {20, 500}, p_alt : {500, 650, 1000},
            n : Ns, alpha : Alphas, tails : Tails]
      [] o = "remove_outliers_iqr" ->
           [data : Datasets]

Init ==
    /\ pc = "ready"
    /\ op \in Ops
    /\ args \in ArgsOf(op)
    /\ out = Pending

\* The call of function f ends with result r.
Finish(f, r) ==
    /\ pc = "ready"
    /\ op = f
    /\ out' = r
    /\ pc' = "done"
    /\ UNCHANGED <<op, args>>

CallMeanEstimation ==
    Finish("calculate_mean_estimation",
           calculate_mean_estimation(args.mean, args.n, args.std, args.is_sample_std,
                                     args.cl, args.start, args.end))

CallProportionEstimation ==
    Finish("calculate_proportion_estimation",
           calculate_proportion_estimation(args.p, args.n, args.cl, args.start, args.end))

CallStandardErrorMean ==
    Finish("calculate_standard_error_mean",
           calculate_standard_error_mean(args.std_dev, args.n))

CallStandardErrorProportion ==
    Finish("calculate_standard_error_proportion",
           calculate_standard_error_proportion(args.p, args.n))

CallTestMean ==
    Finish("hypothesis_test_mean",
           hypothesis_test_mean(args.sample_mean, args.population_mean, args.std_dev,
                                args.n, args.alpha, args.tail_type,
                                args.is_population_std))

CallTestProportion ==
    Finish("hypothesis_test_proportion",
           hypothesis_test_proportion(args.sample_proportion, args.population_proportion,
                                      args.n, args.alpha, args.tail_type))

CallErrorsPower ==
    Finish("calculate_errors_power",
           calculate_errors_power(args.mean_null, args.mean_alt, args.std, args.n,
                                  args.alpha, args.tails))

CallProportionErrorsPower ==
    Finish("calculate_proportion_errors_power",
           calculate_proportion_errors_power(args.p_null, args.p_alt, args.n,
                                             args.alpha, args.tails))

CallRemoveOutliersIqr ==
    \E raisesOnEmpty \in BOOLEAN :
        Finish("remove_outliers_iqr", remove_outliers_iqr(args.data, raisesOnEmpty))

Next ==
    \/ CallMeanEstimation
    \/ CallProportionEstimation
    \/ CallStandardErrorMean
    \/ CallStandardErrorProportion
    \/ CallTestMean
    \/ CallTestProportion
    \/ CallErrorsPower
    \/ CallProportionErrorsPower
    \/ CallRemoveOutliersIqr

Spec == Init /\ [][Next]_vars

\* The call of function f has ended.
Done(f) == pc = "done" /\ op = f

\* The call returned a result (no exception left the function).
Returned == out.err = "none"

(***************************************************************************)
(* Properties                                                              *)
(***************************************************************************)
\* The 10-successes / 10-failures rule is violated by proportion p (in
\* 1/Scale) and sample size n.
RuleViolated(p, n) == n * p < 10 * Scale \/ n * (Scale - p) < 10 * Scale

\* The call was left by the validation error of the proportion rule.
ValidationError ==
    /\ out.err = "ValueError"
    /\ out.why \in { "success and fail must both be at least 10",
                     "succeeded = np and failed = n(1-p) must both be at least 10" }

\* C1: calculate_proportion_estimation fails with the validation error, and
\* returns no result, exactly when n*p < 10 or n*(1-p) < 10; for every other
\* (p, n) it returns a result and raises nothing.
C1_ProportionEstimationValidates ==
    Done("calculate_proportion_estimation") =>
        /\ RuleViolated(args.p, args.n) <=> ValidationError
        /\ ~RuleViolated(args.p, args.n) <=> Returned

\* p = 0.02, n = 100: n*p = 2 < 10, the call fails.
C1_Witness ==
    /\ Done("calculate_proportion_estimation")
    /\ args.p = 20
    /\ args.n = 100
    /\ ValidationError

C3_EveryProportionComputationValidates ==
    /\ Done("calculate_proportion_estimation") /\ RuleViolated(args.p, args.n)
           => ValidationError
    /\ Done("hypothesis_test_proportion")
           /\ RuleViolated(args.population_proportion, args.n)
           => ValidationError
    /\ Done("calculate_proportion_errors_power") /\ RuleViolated(args.p_null, args.n)
           => ValidationError

\* C4: in hypothesis_test_mean and hypothesis_test_proportion the decision is
\* one of reject / fail-to-reject, and it is reject iff the p-value is
\* strictly less than alpha.
C4_RejectIffPValueBelowAlpha ==
    (Done("hypothesis_test_mean") \/ Done("hypothesis_test_proportion")) /\ Returned =>
        /\ out.decision \in {"Reject H0", "Fail to Reject H0"}
        /\ out.decision = "Reject H0"
               <=> (out.p_value.cls = "fin" /\ out.p_value.v < args.alpha)

\* A p-value equal to alpha: fail-to-reject.
C4_Witness ==
    /\ Done("hypothesis_test_mean") \/ Done("hypothesis_test_proportion")
    /\ Returned
    /\ out.p_value = Fin(args.alpha)
    /\ out.decision = "Fail to Reject H0"

C6_TestSelectsDistribution ==
    Done("hypothesis_test_mean") /\ Returned =>
        IF args.n >= 30 \/ args.is_population_std
        THEN out.dist = "Z" /\ out.df = None
        ELSE out.dist = "T" /\ out.df = Fin(args.n - 1)

\* n = 10 with a known population standard deviation takes the Normal path.
C6_Witness ==
    /\ Done("hypothesis_test_mean")
    /\ Returned
    /\ args.n = 10
    /\ args.is_population_std
    /\ out.dist = "Z"

\* The population standard deviation is unknown to the call.
PopulationStdUnknown ==
    IF op = "calculate_mean_estimation" THEN args.is_sample_std # 0
    ELSE ~args.is_population_std

\* C7: calculate_mean_estimation and hypothesis_test_mean obey one rule:
\* Student-t when n < 30 or the population standard deviation is unknown,
\* Normal otherwise.
C7_OneSelectionRule ==
    (Done("calculate_mean_estimation") \/ Done("hypothesis_test_mean")) /\ Returned =>
        IF args.n < 30 \/ PopulationStdUnknown
        THEN out.dist = "T"
        ELSE out.dist = "Z"

\* C8: every interval returned by calculate_mean_estimation and
\* calculate_proportion_estimation is symmetric about the point estimate by
\* exactly the returned margin of error:
\* high - estimate = estimate - low = margin of error.
C8_IntervalSymmetric ==
    (Done("calculate_mean_estimation") \/ Done("calculate_proportion_estimation"))
    /\ Returned =>
        LET estimate == IF op = "calculate_mean_estimation"
                        THEN Fin(args.mean) ELSE Fin(args.p)
        IN  /\ FEq(FSub(out.CI[2], estimate), FSub(estimate, out.CI[1]))
            /\ FEq(FSub(estimate, out.CI[1]), out.MoE)

\* C9: every operation that takes a tail mode fails with an invalid-argument
\* error and returns no result when the tail mode is none of two-sided,
\* left-tailed, right-tailed (the other arguments being valid: n >= 1 and a
\* positive standard deviation).
C9_UnknownTailIsInvalidArgument ==
    /\ Done("hypothesis_test_mean") /\ args.tail_type \notin ValidTails
           /\ args.n >= 1 /\ args.std_dev > 0
           => out.err = "ValueError"
    /\ Done("hypothesis_test_proportion") /\ args.tail_type \notin ValidTails
           /\ args.n >= 1
           => out.err = "ValueError"
    /\ Done("calculate_errors_power") /\ args.tails \notin ValidTails
           /\ args.n >= 1 /\ args.std > 0
           => out.err = "ValueError"
    /\ Done("calculate_proportion_errors_power") /\ args.tails \notin ValidTails
           /\ args.n >= 1
           => out.err = "ValueError"

\* C10: every operation that takes a sample size fails with an error and
\* returns no result when n <= 0.
C10_NonPositiveSampleSizeFails ==
    pc = "done" /\ args.n <= 0 => ~Returned

\* A call of calculate_errors_power with a two-sided test of level 0.05 and
\* no true effect (mean_null = mean_alt, std > 0, n >= 1) has returned.
NoEffectCall ==
    /\ Done("calculate_errors_power")
    /\ args.tails = "two"
    /\ args.alpha = 500
    /\ args.mean_null = args.mean_alt
    /\ args.std > 0
    /\ args.n >= 1

\* C11 as stated: with two-sided tail mode and mean_null = mean_alt
\* calculate_errors_power returns power equal to alpha (beta = 1 - alpha).
C11_NoEffectPowerEqualsAlpha ==
    NoEffectCall =>
        /\ Returned
        /\ FEq(out.power, Fin(args.alpha))
        /\ FEq(out.beta, OneMinus(Fin(args.alpha)))

\* C11 as amended: the power is alpha up to the rounding of the computation,
\* |power - alpha| <= 0.002, and beta is 1 - alpha up to the same error.
C11_NoEffectPowerNearAlpha ==
    NoEffectCall =>
        /\ Returned
        /\ out.power.cls = "fin"
        /\ out.beta.cls = "fin"
        /\ Abs(out.power.v - args.alpha) * 500 <= PScale
        /\ Abs(out.beta.v - (PScale - args.alpha)) * 500 <= PScale

C11_Witness ==
    /\ NoEffectCall
    /\ Returned
    /\ out.power.cls = "fin"
    /\ out.power.v # args.alpha

\* x <= y on floats: false when either is nan.
FLe(x, y) == FLt(x, y) \/ FEq(x, y)

\* The margin of error of the call with sample size n2 in place of n, the
\* other arguments being those of the call (None when that call raises).
MarginAt(n2) ==
    LET r == IF op = "calculate_mean_estimation"
             THEN calculate_mean_estimation(args.mean, n2, args.std, args.is_sample_std,
                                            args.cl, args.start, args.end)
             ELSE calculate_proportion_estimation(args.p, n2, args.cl, args.start, args.end)
    IN  IF r.err = "none" THEN r.MoE ELSE None

\* The margin of error of the call with confidence level c in place of cl.
MarginAtLevel(c) ==
    LET r == IF op = "calculate_mean_estimation"
             THEN calculate_mean_estimation(args.mean, args.n, args.std,
                                            args.is_sample_std, c, args.start, args.end)
             ELSE calculate_proportion_estimation(args.p, args.n, c, args.start, args.end)
    IN  IF r.err = "none" THEN r.MoE ELSE None

EstimationReturned ==
    /\ Done("calculate_mean_estimation") \/ Done("calculate_proportion_estimation")
    /\ Returned

\* C12: with the estimate, the dispersion and the confidence level fixed, the
\* margin of error of calculate_mean_estimation and of
\* calculate_proportion_estimation never increases with n:
\* MoE(n2) <= MoE(n1) for all n1 < n2.
C12_MarginNonIncreasingInN ==
    EstimationReturned =>
        \A n2 \in Ns :
            n2 > args.n /\ MarginAt(n2) # None => FLe(MarginAt(n2), out.MoE)

\* C13: with n and the dispersion fixed, the margin of error never decreases
\* with the confidence level: MoE(c1) <= MoE(c2) for all c1 < c2.
C13_MarginNonDecreasingInLevel ==
    EstimationReturned =>
        \A c2 \in ConfidenceLevels :
            c2 > args.cl /\ MarginAtLevel(c2) # None => FLe(out.MoE, MarginAtLevel(c2))

\* The same call with both range bounds supplied.
WithBothBounds ==
    IF op = "calculate_mean_estimation"
    THEN calculate_mean_estimation(args.mean, args.n, args.std, args.is_sample_std,
                                   args.cl,
                                   IF args.start = None THEN Fin(2100) ELSE args.start,
                                   IF args.end = None THEN Fin(2250) ELSE args.end)
    ELSE calculate_proportion_estimation(args.p, args.n, args.cl,
                                         IF args.start = None THEN Fin(450) ELSE args.start,
                                         IF args.end = None THEN Fin(470) ELSE args.end)

\* C15: the estimation functions return a probability iff both range bounds
\* are supplied; when a bound is absent the third component is None and the
\* margin of error and the interval are those of the call with both bounds.
C15_ProbabilityIffBothBounds ==
    EstimationReturned =>
        /\ out.probability # None <=> (args.start # None /\ args.end # None)
        /\ WithBothBounds.err = "none"
        /\ WithBothBounds.MoE = out.MoE
        /\ WithBothBounds.CI = out.CI

\* A test has returned a result.
TestReturned ==
    /\ Done("hypothesis_test_mean") \/ Done("hypothesis_test_proportion")
    /\ Returned

\* The CDF of the reference distribution the test selected, at the statistic x.
ReferenceCdf(x) ==
    IF out.df = None THEN Fin(NormCdf(x)) ELSE TCdf(x, out.df.v)

\* C16: the p-value is 2*(1 - CDF(|stat|)) two-sided, CDF(stat) left-tailed
\* and 1 - CDF(stat) right-tailed, CDF being the Normal CDF when no degrees of
\* freedom are given and the Student-t(df) CDF otherwise; degrees of freedom
\* (n - 1) are given exactly when hypothesis_test_mean selected the T-test.
C16_PValueByTail ==
    TestReturned =>
        /\ out.df # None <=> out.dist = "T"
        /\ out.dist = "T" => out.df = Fin(args.n - 1)
        /\ args.tail_type = "two" =>
               out.p_value = Twice(OneMinus(ReferenceCdf(Abs(out.test_stat.v))))
        /\ args.tail_type = "left" => out.p_value = ReferenceCdf(out.test_stat.v)
        /\ args.tail_type = "right" =>
               out.p_value = OneMinus(ReferenceCdf(out.test_stat.v))

C16_Witness ==
    /\ TestReturned
    /\ out.dist = "T"
    /\ args.tail_type = "left"
    /\ out.p_value.cls = "fin"
    /\ out.p_value.v > 0
    /\ out.p_value.v < PScale \div 2

\* A power computation has ended.
PowerDone ==
    Done("calculate_errors_power") \/ Done("calculate_proportion_errors_power")

\* C17: for every valid tail mode calculate_errors_power and
\* calculate_proportion_errors_power return (typeI, beta, power) with typeI the
\* alpha argument unchanged and power = 1 - beta.
C17_TypeIIsAlphaPowerIsOneMinusBeta ==
    PowerDone =>
        /\ args.tails \in ValidTails /\ args.n # 0 => Returned
        /\ Returned =>
               /\ args.tails \in ValidTails
               /\ out.type1_error = Fin(args.alpha)
               /\ out.power = OneMinus(out.beta)

C17_Witness ==
    /\ PowerDone
    /\ Returned
    /\ out.beta.cls = "fin"
    /\ out.beta.v > 0
    /\ out.beta.v < PScale \div 2

\* C18: calculate_errors_power takes beta as the mass of Normal(mean_alt, SE)
\* inside the non-rejection region of H0: two-sided, the boundaries are
\* mean_null -/+ z(1 - alpha/2) * SE and beta = CDF(high) - CDF(low);
\* right-tailed, low is -infinity, high = mean_null + z(1 - alpha) * SE and
\* beta = CDF(high); left-tailed, low = mean_null + z(alpha) * SE, high is
\* +infinity and beta = 1 - CDF(low).
C18_BetaInsideNonRejectionRegion ==
    Done("calculate_errors_power") /\ Returned =>
        LET SE   == NpDiv(Fin(args.std), NpSqrtInt(args.n))
            low  == out.critical_value_low
            high == out.critical_value_high
        IN  /\ args.tails = "two" =>
                /\ low = FSub(Fin(args.mean_null),
                              FMul(NormPpf(PScale - args.alpha \div 2), SE))
                /\ high = FAdd(Fin(args.mean_null),
                               FMul(NormPpf(PScale - args.alpha \div 2), SE))
                /\ out.beta = FSub(NormCdfF(high, args.mean_alt, SE),
                                   NormCdfF(low, args.mean_alt, SE))
            /\ args.tails = "right" =>
                /\ low = NegInf
                /\ high = FAdd(Fin(args.mean_null),
                               FMul(NormPpf(PScale - args.alpha), SE))
                /\ out.beta = NormCdfF(high, args.mean_alt, SE)
            /\ args.tails = "left" =>
                /\ low = FAdd(Fin(args.mean_null), FMul(NormPpf(args.alpha), SE))
                /\ high = PosInf
                /\ out.beta = OneMinus(NormCdfF(low, args.mean_alt, SE))

C18_Witness ==
    /\ Done("calculate_errors_power")
    /\ Returned
    /\ args.tails = "left"
    /\ args.mean_alt # args.mean_null
    /\ out.critical_value_low.cls = "fin"
    /\ out.critical_value_low.v < args.mean_null
    /\ out.beta.cls = "fin"
    /\ out.beta.v > PScale \div 2

\* C19: calculate_proportion_estimation uses the Normal reference distribution
\* for every sample size that passes validation, n < 30 included; it never
\* takes the Student-t path.
C19_ProportionEstimationAlwaysNormal ==
    Done("calculate_proportion_estimation") /\ Returned =>
        /\ out.dist = "Z"
        /\ out.df = None
        /\ out.MoE = FMul(NormPpf(PScale - (PScale - args.cl) \div 2),
                          Fin(ISqrt((args.p * (Scale - args.p)) \div args.n)))

C19_Witness ==
    /\ Done("calculate_proportion_estimation")
    /\ Returned
    /\ args.n < SmallSample
    /\ out.dist = "Z"
    /\ out.MoE.cls = "fin"
    /\ out.MoE.v > 0

\* C20: calculate_proportion_errors_power places the critical boundaries with
\* the standard error of the null proportion, sqrt(p_null * (1 - p_null) / n),
\* and evaluates beta on a Normal centred at p_alt whose scale is the standard
\* error of the alternative proportion, sqrt(p_alt * (1 - p_alt) / n).
C20_NullSEForBoundariesAltSEForBeta ==
    Done("calculate_proportion_errors_power") /\ Returned =>
        LET SE_null == NpSqrtRatio(args.p_null, args.n)
            SE_alt  == NpSqrtRatio(args.p_alt, args.n)
            crit    == CriticalValues(args.p_null, SE_null, args.alpha, args.tails)
        IN  /\ out.SE_crit = SE_null
            /\ out.SE_beta = SE_alt
            /\ out.critical_value_low = crit[2]
            /\ out.critical_value_high = crit[3]
            /\ out.beta = Beta(out.critical_value_low, out.critical_value_high,
                               args.p_alt, SE_alt, args.tails)

C20_Witness ==
    /\ Done("calculate_proportion_errors_power")
    /\ Returned
    /\ out.SE_crit.cls = "fin"
    /\ out.SE_beta.cls = "fin"
    /\ out.SE_crit.v > out.SE_beta.v
    /\ out.SE_beta.v > 0
    /\ out.beta.cls = "fin"
    /\ out.beta.v > 0
    /\ out.beta.v < PScale

\* hypothesis_test_mean has been called with a standard deviation of exactly
\* 0 and n >= 1, and the call has ended.
ZeroStdTest ==
    /\ Done("hypothesis_test_mean")
    /\ args.std_dev = 0
    /\ args.n >= 1

\* C21: with a standard deviation of exactly 0 and n >= 1 hypothesis_test_mean
\* never returns a decision: for every tail mode and either flag it ends with
\* a division error raised while the test statistic is computed, before any
\* p-value or decision exists.
C21_ZeroStdRaisesDivisionError ==
    ZeroStdTest =>
        /\ ~Returned
        /\ out.err = "ZeroDivisionError"
        /\ out.why = IF args.n >= LargeSample \/ args.is_population_std
                     THEN "(sample_stat - population_mean) / se"
                     ELSE "(sample_mean - population_mean) / se"

C21_Witness ==
    /\ ZeroStdTest
    /\ args.is_population_std
    /\ args.tail_type = "two"
    /\ args.sample_mean # args.population_mean
    /\ out.err = "ZeroDivisionError"

\* remove_outliers_iqr has returned a list.
OutliersRemoved == Done("remove_outliers_iqr") /\ Returned

\* v lies within the fences of the data set a, both fences included:
\* q25 - 1.5 * iqr <= v <= q75 + 1.5 * iqr (compared in eighths).  An empty
\* data set has no quartiles and nothing lies within its fences.
WithinFences(v, a) ==
    /\ a # <<>>
    /\ LET q25 == Percentile4(a, 25)
           q75 == Percentile4(a, 75)
       IN  /\ 2 * q25 - 3 * (q75 - q25) <= 8 * v
           /\ 8 * v <= 2 * q75 + 3 * (q75 - q25)

\* The number of places of the sequence s that hold v.
Count(v, s) == Cardinality({i \in DOMAIN s : s[i] = v})

\* C22: remove_outliers_iqr returns exactly the input elements v with
\* q25 - 1.5*iqr <= v <= q75 + 1.5*iqr, both bounds inclusive and the
\* quartiles taken from the input, in their original order and with
\* duplicates preserved; it adds, reorders and alters no element and leaves
\* the input unchanged.
C22_KeepsExactlyTheElementsWithinFences ==
    OutliersRemoved =>
        /\ out.data = args.data
        /\ \A v \in Values :
               Count(v, out.val) = IF WithinFences(v, args.data)
                                   THEN Count(v, args.data) ELSE 0
        /\ out.val = SelectSeq(args.data, LAMBDA v : Count(v, out.val) > 0)

\* An outlier is dropped, an element lying on a fence is kept, a value that
\* occurs twice is kept twice, and the input is not in ascending order.
C22_Witness ==
    /\ OutliersRemoved
    /\ Len(out.val) < Len(args.data)
    /\ \E i \in DOMAIN args.data :
           LET q25 == Percentile4(args.data, 25)
               q75 == Percentile4(args.data, 75)
           IN  \/ 8 * args.data[i] = 2 * q25 - 3 * (q75 - q25)
               \/ 8 * args.data[i] = 2 * q75 + 3 * (q75 - q25)
    /\ \E v \in Values : Count(v, out.val) >= 2
    /\ \E i \in DOMAIN args.data : i > 1 /\ args.data[i] < args.data[i - 1]

====
